---- MODULE Spec2Model ----
(***************************************************************************)
(* django-multitenant: the tenant context store, the context propagation   *)
(* middleware, the scoped manager, the join rewriter of TenantQuerySet,    *)
(* the update guard of TenantModel and the join restriction of             *)
(* TenantForeignKey, over the schema of test_app/stores/models.py.         *)
(***************************************************************************)
EXTENDS Integers, Sequences, FiniteSets, TLC

(* ----------------------------- bounds ---------------------------------- *)
\* number of Store rows, each of which can be the current tenant
NumTenants == 2
\* number of worker threads holding a _thread_locals slot
NumThreads == 2
\* number of SQL-generating calls recorded on one queryset object
MaxRewrites == 2

Threads == 1..NumThreads
\* the thread whose unit of work issues the queries
MainThread == CHOOSE t \in Threads : \A u \in Threads : t <= u

(* ----------------------------- objects --------------------------------- *)
\* Python's None
None == [cls |-> "NoneType"]
\* a Store instance, the object handed to set_current_tenant
Tenant(i) == [cls |-> "Store", id |-> i]
Tenants == {Tenant(i) : i \in 1..NumTenants}
\* truth value of an object in `if current_tenant:` / `if profile:`
\* (model instances define neither __bool__ nor __len__)
Truthy(obj) == obj /= None

(* ------------------------ models.py: the schema ------------------------ *)
\* the entity types of models.py in registration order
Models ==
  << [name |-> "Store",    db_table |-> "stores_store",    TenantModel |-> FALSE, tenant_id |-> "id"],
     [name |-> "Product",  db_table |-> "stores_product",  TenantModel |-> TRUE,  tenant_id |-> "store_id"],
     [name |-> "Purchase", db_table |-> "stores_purchase", TenantModel |-> TRUE,  tenant_id |-> "store_id"] >>

ModelNamed(n) == CHOOSE m \in {Models[i] : i \in DOMAIN Models} : m.name = n
Store == ModelNamed("Store")
Product == ModelNamed("Product")
Purchase == ModelNamed("Purchase")
\* the entity types that inherit TenantModel and so carry objects = TenantManager()
TenantModels == {Models[i] : i \in {j \in DOMAIN Models : Models[j].TenantModel}}

\* raised by get_model_by_db_table and by process_request
ValueError == [cls |-> "ValueError"]

(* ------------------------ models.py: the relations --------------------- *)
\* the foreign keys of the schema: the model holding the field, the field's
\* column there, and the related model (whose primary key "id" it targets)
Relations ==
  { [model |-> Product,  name |-> "store",   column |-> "store_id",   related_model |-> Store],
    [model |-> Purchase, name |-> "store",   column |-> "store_id",   related_model |-> Store],
    [model |-> Purchase, name |-> "product", column |-> "product_id", related_model |-> Product] }

\* the two field classes a relation between tenant-scoped models can be declared with
FieldClasses(rel) ==
  IF rel.model.TenantModel /\ rel.related_model.TenantModel
  THEN {"ForeignKey", "TenantForeignKey"} ELSE {"ForeignKey"}

(* ------------------------------ the rows ------------------------------- *)
StoreIds == 1..NumTenants
\* one purchase per store on that store's product, and one purchase of store 1
\* whose product_id names the product of store 2
CrossPurchase == NumTenants + 1
PurchaseIds == 1..CrossPurchase

InitialRows ==
  [t \in {Models[i].db_table : i \in DOMAIN Models} |->
     CASE t = "stores_store" ->
            [i \in StoreIds |-> [id |-> i, name |-> 0]]
       [] t = "stores_product" ->
            [i \in StoreIds |-> [id |-> i, store_id |-> i, name |-> 0, description |-> 0]]
       [] t = "stores_purchase" ->
            [i \in PurchaseIds |->
               IF i = CrossPurchase
               THEN [id |-> i, store_id |-> 1, product_id |-> 2, quantity |-> 0]
               ELSE [id |-> i, store_id |-> i, product_id |-> i, quantity |-> 0]]]

\* the column an update of the model writes
UpdatedColumn(model) == IF model = Purchase THEN "quantity" ELSE "description"
\* the value an update writes; every row starts at 0, so a written row shows
NewValue == InitialRows["stores_product"][1].description + 1

VARIABLES
  _thread_locals,  \* per thread: the user and tenant attributes of the local() object
  unit_of_work,    \* per thread: "running", or "aborted" once process_request raised
  db,              \* table name -> primary key -> row
  qs,              \* the queryset object the unit of work holds, or None
  origin,          \* how qs was obtained, and the current tenant at that moment
  last,            \* the call just made on qs (or save(), or process_request) and its
                   \* outcome; none once the queryset or the current tenant is replaced
  apps,            \* apps.get_models(): the registered models in registration order
  written          \* per thread: the tenant that thread last assigned to its tenant
                   \* attribute, None while it has assigned none

vars == << _thread_locals, unit_of_work, db, qs, origin, last, apps, written >>

(* ------------------------------ the registry --------------------------- *)
RECURSIVE FirstModel(_, _)
FirstModel(i, db_table) ==
  IF i > Len(apps) THEN ValueError
  ELSE IF apps[i].db_table = db_table THEN apps[i]
  ELSE FirstModel(i + 1, db_table)

\* faulty variant: an unresolved table falls back to a model that is not tenant-scoped
get_model_by_db_table_fallback(db_table) ==
  IF FirstModel(1, db_table) = ValueError
  THEN [name |-> "", db_table |-> db_table, TenantModel |-> FALSE, tenant_id |-> ""]
  ELSE FirstModel(1, db_table)

\* the first registered model with that table, else ValueError
get_model_by_db_table(db_table) == FirstModel(1, db_table)


(* ------------------------ tenant context store ------------------------- *)
\* getattr(_thread_locals, 'tenant', None)
get_current_tenant(t) == _thread_locals[t].tenant

\* faulty variant: the tenant kept in one module attribute that every thread shares
set_current_tenant_shared(t, tenant) ==
  [u \in Threads |-> [_thread_locals[u] EXCEPT !.tenant = tenant]]

\* setattr(_thread_locals, 'tenant', tenant): the locals of thread t afterwards
set_current_tenant(t, tenant) == [_thread_locals EXCEPT ![t].tenant = tenant]

\* getattr(_thread_locals, 'user', None)
get_current_user(t) == _thread_locals[t].user

(* --------------------------- the abstract query ------------------------ *)
\* models.QuerySet(model): a queryset whose query has no alias yet
QuerySet(model) ==
  [cls |-> "TenantQuerySet", model |-> model, alias_refcount |-> << >>,
   alias_map |-> << >>, where |-> << >>, extra |-> << >>]

Aliases(q) == {q.alias_refcount[i][1] : i \in DOMAIN q.alias_refcount}
Refcount(q, k) ==
  LET i == CHOOSE j \in DOMAIN q.alias_refcount : q.alias_refcount[j][1] = k
  IN q.alias_refcount[i][2]

\* Query.get_initial_alias: the base table joins the alias maps under its own name
get_initial_alias(q) ==
  IF q.model.db_table \in Aliases(q) THEN q
  ELSE [q EXCEPT !.alias_refcount = Append(@, << q.model.db_table, 1 >>),
                 !.alias_map = (q.model.db_table :>
                    [table_name |-> q.model.db_table, parent_alias |-> None]) @@ @]

\* QuerySet.filter(column=value) on a column of the base table
filter(q, column, value) ==
  [get_initial_alias(q) EXCEPT
     !.where = Append(@, [alias |-> q.model.db_table, column |-> column,
                          lookup |-> "exact", value |-> value])]

\* Query.add_extra([], [], where, params, [], []): one ExtraWhere node, unless both are empty
add_extra(q, where, params) ==
  IF where /= << >> \/ params /= << >>
  THEN [q EXCEPT !.extra = Append(@, [sqls |-> where, params |-> params])]
  ELSE q

\* QuerySet.filter(rel__...__gte=0) across a foreign key of the base model, declared
\* with field class field_cls.  Query.setup_joins adds the related table under its
\* own name.  trimmed: the lookup targets the related primary key (rel__gte=0), so
\* Query.trim_joins moves it to the local column and unrefs the alias (refcount 0);
\* otherwise the lookup is on the related row's name and the alias stays in use.
filter_related(q, rel, field_cls, trimmed) ==
  LET q1 == get_initial_alias(q)
      alias == rel.related_model.db_table
      join == [table_name |-> rel.related_model.db_table,
               parent_alias |-> q.model.db_table,
               lhs_column |-> rel.column, rhs_column |-> "id",
               join_field |-> [cls |-> field_cls, model |-> rel.model,
                               related_model |-> rel.related_model]]
  IN [q1 EXCEPT
        !.alias_refcount = Append(@, << alias, IF trimmed THEN 0 ELSE 1 >>),
        !.alias_map = (alias :> join) @@ @,
        !.where = Append(@, IF trimmed
                            THEN [alias |-> q.model.db_table, column |-> rel.column,
                                  lookup |-> "gte", value |-> 0]
                            ELSE [alias |-> alias, column |-> "name",
                                  lookup |-> "gte", value |-> 0])]

(* --------------------- TenantForeignKey.get_extra_restriction ---------- *)
\* faulty variant: both columns taken under the joined alias
get_extra_restriction_one_alias(self, alias, related_alias) ==
  [lhs |-> [alias |-> alias, column |-> self.related_model.tenant_id],
   rhs |-> [alias |-> alias, column |-> self.related_model.tenant_id]]

\* the condition lhs.tenant_id = rhs.tenant_id: the column of self.model under
\* related_alias against the column of self.related_model under alias
get_extra_restriction(self, alias, related_alias) ==
  LET lhs_model == self.model
      rhs_model == self.related_model
      lookup_lhs == [alias |-> related_alias, column |-> lhs_model.tenant_id]
      lookup_rhs == [alias |-> alias, column |-> rhs_model.tenant_id]
  IN [lhs |-> lookup_lhs, rhs |-> lookup_rhs]

(* ------------------------- SQL execution ------------------------------- *)
\* the aliases of the FROM clause: the base table and every alias still referenced
ActiveAliases(q) ==
  {q.model.db_table} \cup {k \in Aliases(q) : Refcount(q, k) > 0}

TableOf(q, k) == IF k = q.model.db_table THEN q.model.db_table ELSE q.alias_map[k].table_name

\* one row per alias of the FROM clause
Assignments(rows, q) ==
  LET active == ActiveAliases(q)
  IN {a \in [active -> 1..CrossPurchase] :
        \A k \in active : a[k] \in DOMAIN rows[TableOf(q, k)]}

Cell(rows, q, a, k, column) == rows[TableOf(q, k)][a[k]][column]

\* Join.as_sql: the ON clause of alias k, the join columns and, for a
\* TenantForeignKey, the extra restriction of the join field
JoinHolds(rows, q, a, k) ==
  LET j == q.alias_map[k] IN
  /\ Cell(rows, q, a, j.parent_alias, j.lhs_column) = Cell(rows, q, a, k, j.rhs_column)
  /\ j.join_field.cls = "TenantForeignKey" =>
        LET c == get_extra_restriction(j.join_field, k, j.parent_alias)
        IN Cell(rows, q, a, c.lhs.alias, c.lhs.column) = Cell(rows, q, a, c.rhs.alias, c.rhs.column)

\* the value a fragment of an ExtraWhere node compares its column with: the
\* i-th parameter for alias."column" = %s, the number in the text for alias.column=<id>
FragmentValue(node, i) ==
  IF node.sqls[i].bound THEN node.params[i] ELSE node.sqls[i].literal

\* an ExtraWhere node: every fragment holds
ExtraHolds(rows, q, a, node) ==
  \A i \in DOMAIN node.sqls :
     Cell(rows, q, a, node.sqls[i].alias, node.sqls[i].column) = FragmentValue(node, i)

\* a lookup of the WHERE clause: column = value or column >= value
LookupHolds(rows, q, a, w) ==
  IF w.lookup = "exact"
  THEN Cell(rows, q, a, w.alias, w.column) = w.value
  ELSE Cell(rows, q, a, w.alias, w.column) >= w.value

\* the joined rows the compiled SELECT yields
Matches(rows, q) ==
  LET joined == ActiveAliases(q) \ {q.model.db_table} IN
  {a \in Assignments(rows, q) :
     /\ \A k \in joined : JoinHolds(rows, q, a, k)
     /\ \A i \in DOMAIN q.where : LookupHolds(rows, q, a, q.where[i])
     /\ \A i \in DOMAIN q.extra : ExtraHolds(rows, q, a, q.extra[i])}

\* the primary keys of the base-table rows the query selects
Execute(rows, q) == {a[q.model.db_table] : a \in Matches(rows, q)}

(* ----------------------------- TenantQuerySet -------------------------- *)
RECURSIVE JoinFilters(_, _, _, _)
\* the loop over alias_refcount.items() from item i on; acc holds extra_sql and
\* extra_params so far; ValueError once a table resolves to no model
JoinFilters(self, current_tenant, i, acc) ==
  IF i > Len(self.alias_refcount) THEN acc
  ELSE
    LET k == self.alias_refcount[i][1]
        v == self.alias_refcount[i][2]
    IN IF v > 0 /\ k /= self.model.db_table
       THEN LET current_model == get_model_by_db_table(self.alias_map[k].table_name)
            IN IF current_model = ValueError THEN ValueError
               ELSE IF current_model.TenantModel
               THEN JoinFilters(self, current_tenant, i + 1,
                      [extra_sql |-> Append(acc.extra_sql,
                                      [alias |-> k, column |-> current_model.tenant_id,
                                       bound |-> TRUE, literal |-> 0]),
                       extra_params |-> Append(acc.extra_params, current_tenant.id)])
               ELSE JoinFilters(self, current_tenant, i + 1, acc)
       ELSE JoinFilters(self, current_tenant, i + 1, acc)

\* faulty variant: the aliases no longer referenced (refcount 0) are rewritten too
add_tenant_filters_with_joins_unreferenced(t, self) ==
  LET current_tenant == get_current_tenant(t) IN
  IF Truthy(current_tenant)
  THEN LET r == JoinFilters([self EXCEPT !.alias_refcount =
                                [i \in DOMAIN @ |-> << @[i][1], 1 >>]],
                            current_tenant, 1,
                            [extra_sql |-> << >>, extra_params |-> << >>])
       IN IF r = ValueError THEN ValueError
          ELSE add_extra(self, r.extra_sql, r.extra_params)
  ELSE self

\* the queryset after the join rewrite run on thread t, or ValueError
add_tenant_filters_with_joins(t, self) ==
  LET current_tenant == get_current_tenant(t) IN
  IF Truthy(current_tenant)
  THEN LET r == JoinFilters(self, current_tenant, 1,
                            [extra_sql |-> << >>, extra_params |-> << >>])
       IN IF r = ValueError THEN ValueError
          ELSE add_extra(self, r.extra_sql, r.extra_params)
  ELSE self

\* the queryset after the base-table rewrite run on thread t (the fragment
\* table.tenant_id=<id>, interpolated, no parameter)
add_tenant_filters_without_joins(t, self) ==
  LET current_tenant == get_current_tenant(t) IN
  IF Truthy(current_tenant)
  THEN add_extra(self, << [alias |-> self.model.db_table,
                           column |-> self.model.tenant_id,
                           bound |-> FALSE, literal |-> current_tenant.id] >>, << >>)
  ELSE self

(* --------------- stores/middleware.py: the second TenantQuerySet ------- *)
RECURSIVE stores_JoinFilters(_, _, _, _)
\* the loop over alias_refcount.items() from item i on; acc holds the list l of
\* fragments alias.tenant_id=<id>, the id written into the text; ValueError once
\* a table resolves to no model
stores_JoinFilters(self, current_tenant, i, acc) ==
  IF i > Len(self.alias_refcount) THEN acc
  ELSE
    LET k == self.alias_refcount[i][1]
        v == self.alias_refcount[i][2]
    IN IF v > 0 /\ k /= self.model.db_table
       THEN LET current_model == get_model_by_db_table(self.alias_map[k].table_name)
            IN IF current_model = ValueError THEN ValueError
               ELSE stores_JoinFilters(self, current_tenant, i + 1,
                      [l |-> Append(acc.l, [alias |-> k, column |-> current_model.tenant_id,
                                            bound |-> FALSE, literal |-> current_tenant.id])])
       ELSE stores_JoinFilters(self, current_tenant, i + 1, acc)

\* the queryset after the join rewrite of stores.middleware run on thread t
\* (whose store holds the tenant of thread t), or ValueError
stores_add_tenant_filters_with_joins(t, self) ==
  LET current_tenant == get_current_tenant(t) IN
  IF Truthy(current_tenant)
  THEN LET r == stores_JoinFilters(self, current_tenant, 1, [l |-> << >>])
       IN IF r = ValueError THEN ValueError
          ELSE add_extra(self, r.l, << >>)
  ELSE self

\* Each SQL-generating method: the rewrite, then the inherited method on the
\* rewritten queryset.  The result carries the queryset afterwards (self), the
\* primary keys the statement selected (rows) and the value returned.
Raised(self, exc) == [self |-> self, rows |-> {}, value |-> exc, raised |-> TRUE]
Returned(self, rows, value) == [self |-> self, rows |-> rows, value |-> value, raised |-> FALSE]

__iter__(t, self, rows) ==
  LET q == add_tenant_filters_with_joins(t, self) IN
  IF q = ValueError THEN Raised(self, ValueError)
  ELSE LET found == Execute(rows, q) IN Returned(q, found, found)

count(t, self, rows) ==
  LET q == add_tenant_filters_with_joins(t, self) IN
  IF q = ValueError THEN Raised(self, ValueError)
  ELSE LET found == Execute(rows, q) IN Returned(q, found, Cardinality(found))

\* aggregate(Max('id')); None over no row
aggregate(t, self, rows) ==
  LET q == add_tenant_filters_with_joins(t, self) IN
  IF q = ValueError THEN Raised(self, ValueError)
  ELSE LET found == Execute(rows, q)
       IN Returned(q, found,
            IF found = {} THEN None
            ELSE CHOOSE m \in found : \A n \in found : n <= m)

\* get(**kwargs): the rewrite on self, then QuerySet.get, which filters a clone
\* by kwargs (None: no lookup; else a lookup across a relation) and fetches it:
\* the one row selected, else DoesNotExist or MultipleObjectsReturned
get(t, self, kwargs, rows) ==
  LET q == add_tenant_filters_with_joins(t, self) IN
  IF q = ValueError THEN Raised(self, ValueError)
  ELSE LET clone == IF kwargs = None THEN q
                    ELSE filter_related(q, kwargs.rel, kwargs.field_cls, kwargs.trimmed)
           found == Execute(rows, clone)
       IN IF Cardinality(found) = 1
          THEN Returned(q, found, CHOOSE m \in found : TRUE)
          ELSE [self |-> q, rows |-> found, raised |-> TRUE,
                value |-> [cls |-> IF found = {} THEN "DoesNotExist"
                                   ELSE "MultipleObjectsReturned"]]

\* _as_sql(connection): the subquery text, whose rows are those it selects
_as_sql(t, self, rows) ==
  LET q == add_tenant_filters_with_joins(t, self) IN
  IF q = ValueError THEN Raised(self, ValueError)
  ELSE Returned(q, Execute(rows, q), [cls |-> "sql"])

\* QuerySet.update(column=value), inherited: no override is in force
update(t, self, rows) ==
  LET found == Execute(rows, self) IN Returned(self, found, Cardinality(found))

(* ------------------------------ TenantManager -------------------------- *)
\* faulty variant: the manager never filters
get_queryset_unfiltered(t, model) == QuerySet(model)

\* faulty variant: with no current tenant the manager falls back to the first store
get_queryset_default_tenant(t, model) ==
  filter(QuerySet(model), model.tenant_id,
         IF Truthy(get_current_tenant(t)) THEN get_current_tenant(t).id
         ELSE CHOOSE i \in StoreIds : \A j \in StoreIds : i <= j)

\* Model.objects.get_queryset() on thread t
get_queryset(t, model) ==
  LET current_tenant == get_current_tenant(t) IN
  IF Truthy(current_tenant)
  THEN filter(QuerySet(model), model.tenant_id, current_tenant.id)
  ELSE QuerySet(model)

(* ------------------------------- TenantModel --------------------------- *)
\* instance._do_update(base_qs, using, pk_val, values, ...): the tenant filter,
\* then Model._do_update: base_qs.filter(pk=pk_val)._update(values)
_do_update(t, self, base_qs, pk_val, rows) ==
  LET current_tenant == get_current_tenant(t)
      base == IF Truthy(current_tenant)
              THEN filter(base_qs, self.tenant_id, current_tenant.id)
              ELSE base_qs
      filtered == filter(base, "id", pk_val)
      found == Execute(rows, filtered)
  IN Returned(filtered, found, found /= {})

\* the rows after an UPDATE of the selected primary keys
Written(rows, model, pks, value) ==
  [rows EXCEPT ![model.db_table] =
     [pk \in DOMAIN @ |-> IF pk \in pks
                          THEN [@[pk] EXCEPT ![UpdatedColumn(model)] = value]
                          ELSE @[pk]]]

(* ------------------------------ ThreadLocals --------------------------- *)
\* what user.get_profile() does: raise, return None, or return a profile
\* whose tenant attribute is a tenant or None
Raises == [cls |-> "Exception"]
Profile(tenant) == [cls |-> "UserProfile", tenant |-> tenant]
Profiles == {Profile(tn) : tn \in Tenants \cup {None}}
AnonymousUser == [cls |-> "AnonymousUser", anonymous |-> TRUE]
User(profile) == [cls |-> "User", anonymous |-> FALSE, get_profile |-> profile]
Users == {AnonymousUser} \cup {User(p) : p \in Profiles \cup {None, Raises}}
\* a request whose user attribute is absent (None) or one of the users
Requests == {[user |-> u] : u \in Users \cup {None}}

\* faulty variant: a profile with no tenant leaves the tenant attribute as it was
process_request_keeps_tenant(t, request) ==
  LET user == request.user
      locals == [_thread_locals EXCEPT ![t].user = user]
  IN IF Truthy(user) /\ ~user.anonymous
     THEN LET profile == user.get_profile
          IN IF profile = Raises
             THEN [locals |-> locals, raised |-> TRUE, assigned |-> FALSE]
             ELSE IF Truthy(profile) /\ Truthy(profile.tenant)
             THEN [locals |-> [locals EXCEPT ![t].tenant = profile.tenant],
                   raised |-> FALSE, assigned |-> TRUE]
             ELSE [locals |-> locals, raised |-> FALSE, assigned |-> FALSE]
     ELSE [locals |-> locals, raised |-> FALSE, assigned |-> FALSE]

\* the locals of thread t after process_request(request), whether it raised
\* ValueError and whether it assigned _thread_locals.tenant
process_request(t, request) ==
  LET user == request.user
      locals == [_thread_locals EXCEPT ![t].user = user]
  IN IF Truthy(user) /\ ~user.anonymous
     THEN LET profile == user.get_profile
          IN IF profile = Raises
             THEN [locals |-> locals, raised |-> TRUE, assigned |-> FALSE]
             ELSE IF Truthy(profile)
             THEN [locals |-> [locals EXCEPT ![t].tenant = profile.tenant],
                   raised |-> FALSE, assigned |-> TRUE]
             ELSE [locals |-> locals, raised |-> FALSE, assigned |-> FALSE]
     ELSE [locals |-> locals, raised |-> FALSE, assigned |-> FALSE]

(* ------------------------------ the state machine ---------------------- *)
\* last: the method, the thread that called it (0: none), its lookup arguments, the current tenant it ran under (for
\* process_request, the one it left), the model, the primary keys its statement selected, the value
\* it returned or the exception it raised
NoStatement == [op |-> "none", thread |-> 0, kwargs |-> None, tenant |-> None, model |-> None,
                rows |-> {}, value |-> None, raised |-> FALSE]
Statement(op, kwargs, t, model, r) ==
  [op |-> op, thread |-> t, kwargs |-> kwargs, tenant |-> get_current_tenant(t), model |-> model,
   rows |-> r.rows, value |-> r.value, raised |-> r.raised]

NoOrigin == [via |-> "none", tenant |-> None]
Origin(via, t) == [via |-> via, tenant |-> get_current_tenant(t)]

Init ==
  /\ _thread_locals = [t \in Threads |-> [user |-> None, tenant |-> None]]
  /\ unit_of_work = [t \in Threads |-> "running"]
  /\ db = InitialRows
  /\ qs = None
  /\ origin = NoOrigin
  /\ last = NoStatement
  /\ apps = Models
  /\ written = [t \in Threads |-> None]

\* the middleware handles the next request on thread t
Handle(t, request) ==
  LET r == process_request(t, request) IN
  /\ _thread_locals' = r.locals
  /\ unit_of_work' = [unit_of_work EXCEPT ![t] = IF r.raised THEN "aborted" ELSE "running"]
  /\ qs' = None
  /\ origin' = NoOrigin
  /\ written' = IF r.assigned THEN [written EXCEPT ![t] = request.user.get_profile.tenant]
                ELSE written
  /\ last' = [NoStatement EXCEPT !.op = "process_request",
                                 !.thread = t,
                                 !.tenant = r.locals[t].tenant,
                                 !.raised = r.raised,
                                 !.value = IF r.raised THEN ValueError ELSE None]
  /\ UNCHANGED << db, apps >>

ProcessRequest(t) == \E request \in Requests : Handle(t, request)

SetCurrentTenant(t) ==
  \E tenant \in Tenants \cup {None} :
    /\ unit_of_work[t] = "running"
    /\ _thread_locals' = set_current_tenant(t, tenant)
    /\ written' = [written EXCEPT ![t] = tenant]
    /\ last' = NoStatement
    /\ UNCHANGED << unit_of_work, db, qs, origin, apps >>

\* Model.objects.all()
ObjectsAll(t) ==
  \E model \in TenantModels :
    /\ unit_of_work[t] = "running"
    /\ qs' = get_queryset(t, model)
    /\ origin' = Origin("manager", t)
    /\ last' = NoStatement
    /\ UNCHANGED << _thread_locals, unit_of_work, db, apps, written >>

\* TenantQuerySet(model), not through the manager
Construct(t) ==
  \E model \in TenantModels :
    /\ unit_of_work[t] = "running"
    /\ qs' = QuerySet(model)
    /\ origin' = Origin("direct", t)
    /\ last' = NoStatement
    /\ UNCHANGED << _thread_locals, unit_of_work, db, apps, written >>

\* the lookups across a relation that queryset q can still be filtered by
Lookups(q) ==
  {kw \in [rel : Relations, field_cls : {"ForeignKey", "TenantForeignKey"}, trimmed : BOOLEAN] :
     /\ kw.field_cls \in FieldClasses(kw.rel)
     /\ kw.rel.model = q.model
     /\ kw.rel.related_model.db_table \notin Aliases(q)}

\* qs = qs.filter(**kwargs)
FilterRelated(t) ==
  /\ unit_of_work[t] = "running"
  /\ qs /= None
  /\ \E kwargs \in Lookups(qs) :
       qs' = filter_related(qs, kwargs.rel, kwargs.field_cls, kwargs.trimmed)
  /\ last' = NoStatement
  /\ UNCHANGED << _thread_locals, unit_of_work, db, origin, apps, written >>

\* a SQL-generating read on the held queryset
Read(t, op, kwargs, r) ==
  /\ qs' = r.self
  /\ last' = Statement(op, kwargs, t, qs.model, r)
  /\ UNCHANGED << _thread_locals, unit_of_work, db, origin, apps, written >>

CanRun(t) ==
  /\ unit_of_work[t] = "running"
  /\ qs /= None
  /\ Len(qs.extra) < MaxRewrites

Iterate(t) == CanRun(t) /\ Read(t, "__iter__", None, __iter__(t, qs, db))
Count(t) == CanRun(t) /\ Read(t, "count", None, count(t, qs, db))
Aggregate(t) == CanRun(t) /\ Read(t, "aggregate", None, aggregate(t, qs, db))
Get(t) ==
  /\ CanRun(t)
  /\ \E kwargs \in {None} \cup Lookups(qs) : Read(t, "get", kwargs, get(t, qs, kwargs, db))
AsSql(t) == CanRun(t) /\ Read(t, "_as_sql", None, _as_sql(t, qs, db))

\* qs.update(column=value)
Update(t) ==
  LET r == update(t, qs, db) IN
  /\ unit_of_work[t] = "running"
  /\ qs /= None
  /\ db' = Written(db, qs.model, r.rows, NewValue)
  /\ last' = Statement("update", None, t, qs.model, r)
  /\ UNCHANGED << _thread_locals, unit_of_work, qs, origin, apps, written >>

\* instance.save() of an existing row: Model.save_base reaches _do_update with
\* base_qs = the model's unscoped base manager
Save(t) ==
  \E model \in TenantModels :
    \E pk_val \in DOMAIN db[model.db_table] :
      LET r == _do_update(t, model, QuerySet(model), pk_val, db) IN
      /\ unit_of_work[t] = "running"
      /\ db' = Written(db, model, r.rows, NewValue)
      /\ last' = Statement("_do_update", None, t, model, r)
      /\ UNCHANGED << _thread_locals, unit_of_work, qs, origin, apps, written >>

\* one unit of work building and reading querysets
Next ==
  \/ SetCurrentTenant(MainThread)
  \/ ObjectsAll(MainThread)
  \/ Construct(MainThread)
  \/ FilterRelated(MainThread)
  \/ Iterate(MainThread)
  \/ Count(MainThread)
  \/ Aggregate(MainThread)
  \/ Get(MainThread)
  \/ AsSql(MainThread)

Spec == Init /\ [][Next]_vars

\* one unit of work building querysets and writing through them and through save()
NextWrite ==
  \/ SetCurrentTenant(MainThread)
  \/ ObjectsAll(MainThread)
  \/ Construct(MainThread)
  \/ Update(MainThread)
  \/ Save(MainThread)

SpecWrite == Init /\ [][NextWrite]_vars

\* successive requests on one worker thread, each reading through the manager
NextRequest ==
  \/ ProcessRequest(MainThread)
  \/ SetCurrentTenant(MainThread)
  \/ ObjectsAll(MainThread)
  \/ Iterate(MainThread)

SpecRequest == Init /\ [][NextRequest]_vars

\* the registry contents of a deployment: the models whose managers the unit of
\* work uses, and any of the others (a model that is swapped out or whose app is
\* not installed is not among apps.get_models())
Registries ==
  {SelectSeq(Models, LAMBDA m : m.TenantModel \/ m.name \in S) :
     S \in SUBSET {Models[i].name : i \in DOMAIN Models}}

InitRewrite ==
  /\ _thread_locals = [t \in Threads |-> [user |-> None, tenant |-> None]]
  /\ unit_of_work = [t \in Threads |-> "running"]
  /\ db = InitialRows
  /\ qs = None
  /\ origin = NoOrigin
  /\ last = NoStatement
  /\ apps \in Registries
  /\ written = [t \in Threads |-> None]

\* qs.add_tenant_filters_with_joins(), called on the held queryset
Rewrite(t) ==
  LET q == add_tenant_filters_with_joins(t, qs) IN
  /\ CanRun(t)
  /\ Read(t, "add_tenant_filters_with_joins", None,
          IF q = ValueError THEN Raised(qs, ValueError) ELSE Returned(q, {}, None))

\* one unit of work building querysets, rewriting them and reading them by
\* iteration and by get, under each registry
NextRewrite ==
  \/ SetCurrentTenant(MainThread)
  \/ ObjectsAll(MainThread)
  \/ Construct(MainThread)
  \/ FilterRelated(MainThread)
  \/ Rewrite(MainThread)
  \/ Iterate(MainThread)
  \/ Get(MainThread)

SpecRewrite == InitRewrite /\ [][NextRewrite]_vars

\* get_current_tenant() called on thread t
GetCurrentTenant(t) ==
  /\ unit_of_work[t] = "running"
  /\ last' = Statement("get_current_tenant", None, t, None,
                       Returned(None, {}, get_current_tenant(t)))
  /\ UNCHANGED << _thread_locals, unit_of_work, db, qs, origin, apps, written >>

\* the requests that carry no user or a user whose profile is found
ProfiledRequests ==
  {request \in Requests : Truthy(request.user) => request.user \in {User(p) : p \in Profiles}}

ProcessProfiled(t) == \E request \in ProfiledRequests : Handle(t, request)

\* the worker threads, each handling requests and setting and reading the
\* current tenant, in every interleaving
NextThreads ==
  \E t \in Threads :
    \/ ProcessProfiled(t)
    \/ SetCurrentTenant(t)
    \/ GetCurrentTenant(t)

SpecThreads == Init /\ [][NextThreads]_vars

\* qs.add_tenant_filters_with_joins() on a queryset of stores.middleware
RewriteStores(t) ==
  LET q == stores_add_tenant_filters_with_joins(t, qs) IN
  /\ CanRun(t)
  /\ Read(t, "stores.add_tenant_filters_with_joins", None,
          IF q = ValueError THEN Raised(qs, ValueError) ELSE Returned(q, {}, None))

\* one unit of work building querysets of stores.middleware and rewriting
\* them, under each registry
NextStores ==
  \/ SetCurrentTenant(MainThread)
  \/ Construct(MainThread)
  \/ FilterRelated(MainThread)
  \/ RewriteStores(MainThread)

SpecStores == InitRewrite /\ [][NextStores]_vars

(* ============================ the claims =============================== *)
ReadOps == {"__iter__", "count", "aggregate", "get", "_as_sql"}
WriteOps == {"update", "_do_update"}
AllPks(model) == DOMAIN db[model.db_table]
\* the tenant column of a row of a tenant-scoped model
TenantOf(model, pk) == db[model.db_table][pk][model.tenant_id]
TenantRows(model, tenant) == {pk \in AllPks(model) : TenantOf(model, pk) = tenant.id}
\* the joined aliases of the FROM clause
JoinedAliases(q) == ActiveAliases(q) \ {q.model.db_table}

\* C1 (as claimed): every update issued while a tenant T is current, through
\* save() or through the queryset's update(), changes only rows whose tenant
\* column equals T.
C1_WriteContainment ==
  (last.op \in WriteOps /\ Truthy(last.tenant)) =>
     \A pk \in last.rows : TenantOf(last.model, pk) = last.tenant.id

\* the queryset came from the manager and no relation was filtered on since
FetchAll == qs /= None /\ origin.via = "manager" /\ Aliases(qs) \subseteq {qs.model.db_table}

\* C2: iterating the manager's queryset, obtained and iterated under the same
\* current tenant T, returns exactly the rows of the model whose tenant column
\* equals T.
C2_Scoping ==
  (FetchAll /\ last.op = "__iter__" /\ Truthy(origin.tenant) /\ last.tenant = origin.tenant) =>
     /\ ~last.raised
     /\ last.value = TenantRows(qs.model, last.tenant)

C2_Witness ==
  /\ FetchAll /\ last.op = "__iter__" /\ Truthy(origin.tenant) /\ last.tenant = origin.tenant
  /\ qs.model = Purchase
  /\ last.tenant = Tenant(1)
  /\ last.value = {1, CrossPurchase}

TenantJoins(q) == {k \in JoinedAliases(q) : q.alias_map[k].join_field.cls = "TenantForeignKey"}

\* C4: whatever the current tenant, set or absent, every joined row a query
\* yields across a TenantForeignKey has equal tenant columns on the two sides.
C4_JoinSafety ==
  qs /= None =>
    \A k \in TenantJoins(qs) : \A a \in Matches(db, qs) :
       LET f == qs.alias_map[k].join_field
       IN Cell(db, qs, a, qs.alias_map[k].parent_alias, f.model.tenant_id)
            = Cell(db, qs, a, k, f.related_model.tenant_id)

\* with no current tenant, the purchase of store 1 on the product of store 2 is
\* left out of the join
C4_Witness ==
  /\ qs /= None /\ TenantJoins(qs) /= {}
  /\ last.op = "__iter__" /\ ~Truthy(last.tenant) /\ ~Truthy(origin.tenant)
  /\ last.value = PurchaseIds \ {CrossPurchase}

\* the (alias, column, parameter) triples of the raw predicates, by position
ExtraPositions(q) == {<< i, j >> \in (DOMAIN q.extra) \X (1..Len(q.alias_refcount)) :
                       j \in DOMAIN q.extra[i].sqls}
ExtraAt(q, p) == [alias |-> q.extra[p[1]].sqls[p[2]].alias,
                  column |-> q.extra[p[1]].sqls[p[2]].column,
                  value |-> FragmentValue(q.extra[p[1]], p[2])]
ExtraPredicates(q) == {ExtraAt(q, p) : p \in ExtraPositions(q)}

\* C5 (as claimed): a read executed while B is current selects only rows of B,
\* also on a queryset the manager handed out while another tenant was current.
C5_LastWriteWins ==
  (qs /= None /\ last.op \in ReadOps /\ origin.via = "manager"
     /\ Truthy(origin.tenant) /\ Truthy(last.tenant)) =>
     \A pk \in last.rows : TenantOf(qs.model, pk) = last.tenant.id

\* a SQL-generating method, called with no lookup argument on a queryset
Form(t, op, q) ==
  CASE op = "__iter__" -> __iter__(t, q, db)
    [] op = "count" -> count(t, q, db)
    [] op = "aggregate" -> aggregate(t, q, db)
    [] op = "get" -> get(t, q, None, db)
    [] op = "_as_sql" -> _as_sql(t, q, db)

\* the joined aliases of tenant-scoped tables
TenantScopedJoins(q) ==
  {k \in JoinedAliases(q) : \E m \in TenantModels : m.db_table = q.alias_map[k].table_name}

\* the query a get(**kwargs) fetches: the queryset filtered by its lookups
Underlying(q, kwargs) ==
  IF kwargs = None THEN q
  ELSE filter_related(q, kwargs.rel, kwargs.field_cls, kwargs.trimmed)

\* C6 (as claimed): on the same query, rows and current tenant, __iter__,
\* count, aggregate, get and _as_sql leave the same tenant predicates on the
\* query and consider the same rows, and the rows a get(**kwargs) considered are
\* those count() considers on the query it fetched.
C6_FormConsistency ==
  qs /= None =>
    /\ \A op \in ReadOps :
          /\ Form(MainThread, op, qs).self = __iter__(MainThread, qs, db).self
          /\ Form(MainThread, op, qs).rows = __iter__(MainThread, qs, db).rows
    /\ last.op = "get" =>
          last.rows = count(MainThread, Underlying(qs, last.kwargs), db).rows

\* C7 (as claimed): the raw predicates of a queryset never hold the same
\* tenant predicate (alias, column, value) at two positions.
C7_ExactlyOnce ==
  qs /= None =>
    \A p1, p2 \in ExtraPositions(qs) : ExtraAt(qs, p1) = ExtraAt(qs, p2) => p1 = p2

\* the predicates, filter lookups and raw ones, that hold the base table to the tenant
BasePredicates(q, tenant) ==
  {<< "where", i >> : i \in {j \in DOMAIN q.where :
       q.where[j] = [alias |-> q.model.db_table, column |-> q.model.tenant_id,
                     lookup |-> "exact", value |-> tenant.id]}}
  \cup {<< "extra", p >> : p \in {x \in ExtraPositions(q) :
       ExtraAt(q, x) = [alias |-> q.model.db_table, column |-> q.model.tenant_id,
                        value |-> tenant.id]}}

\* C8 (as claimed): a query compiled while a tenant T is current holds the
\* predicate baseTable.tenantColumn = T, and holds it once.
C8_BasePredicate ==
  (qs /= None /\ last.op \in ReadOps /\ ~last.raised /\ Truthy(last.tenant)) =>
     Cardinality(BasePredicates(qs, last.tenant)) = 1

\* the user the last request carried was absent or anonymous
AnonymousRequest(t) ==
  /\ last.op = "process_request"
  /\ ~Truthy(get_current_user(t)) \/ get_current_user(t).anonymous

\* the user the last request carried was authenticated
AuthenticatedRequest(t) ==
  /\ last.op = "process_request"
  /\ Truthy(get_current_user(t))
  /\ ~get_current_user(t).anonymous

\* C9 (as claimed): process_request on a request with no user or an anonymous
\* one leaves no current tenant, whatever the thread handled before.
C9_AnonymousNoTenant ==
  AnonymousRequest(MainThread) => last.tenant = None

\* C10 (as claimed): process_request for an authenticated user whose
\* get_profile() raises or returns no profile raises ValueError and the unit
\* of work is aborted.
C10_FailFast ==
  (AuthenticatedRequest(MainThread)
     /\ get_current_user(MainThread).get_profile \in {Raises, None}) =>
     /\ last.raised /\ last.value = ValueError
     /\ unit_of_work[MainThread] = "aborted"

\* the tables of the registered models
RegisteredTables == {apps[i].db_table : i \in DOMAIN apps}
\* the joined aliases in use whose table no registered model has
UnregisteredJoins(q) == {k \in JoinedAliases(q) : q.alias_map[k].table_name \notin RegisteredTables}
RewriteOps == ReadOps \cup {"add_tenant_filters_with_joins"}

\* C11: with a current tenant set and a joined alias in use whose table no
\* registered model has, the join rewrite raises ValueError; each of the five
\* SQL-generating methods raises it, selects no row and leaves the queryset as
\* it was; and the call last made on the queryset raised it and selected no row.
C11_UnregisteredAborts ==
  (qs /= None /\ Truthy(get_current_tenant(MainThread)) /\ UnregisteredJoins(qs) /= {}) =>
     /\ add_tenant_filters_with_joins(MainThread, qs) = ValueError
     /\ \A op \in ReadOps :
           /\ Form(MainThread, op, qs).raised
           /\ Form(MainThread, op, qs).value = ValueError
           /\ Form(MainThread, op, qs).rows = {}
           /\ Form(MainThread, op, qs).self = qs
     /\ last.op \in RewriteOps =>
           /\ last.raised
           /\ last.value = ValueError
           /\ last.rows = {}

\* under tenant 1, the manager's purchases joined to their products and then to
\* their stores, with no Store model registered: the iteration raised and the
\* predicate for the product alias was not appended either
C11_Witness ==
  /\ qs /= None /\ qs.model = Purchase /\ origin = [via |-> "manager", tenant |-> Tenant(1)]
  /\ get_current_tenant(MainThread) = Tenant(1)
  /\ JoinedAliases(qs) = {"stores_product", "stores_store"}
  /\ UnregisteredJoins(qs) = {"stores_store"}
  /\ qs.alias_refcount[2][1] = "stores_product"
  /\ last.op = "__iter__" /\ last.raised
  /\ qs.extra = << >>

\* C12: under every interleaving of the threads' process_request,
\* set_current_tenant and get_current_tenant calls, the tenant each thread's
\* slot holds is the one that thread last assigned (None if it assigned none),
\* and the value get_current_tenant() just returned to a thread is the one that
\* thread last assigned.
C12_ThreadIsolation ==
  /\ \A t \in Threads : get_current_tenant(t) = written[t]
  /\ last.op = "get_current_tenant" => last.value = written[last.thread]

\* a thread reads back tenant 2, which it set itself, while the main thread
\* last handled the request of a user whose profile is on tenant 1
C12_Witness ==
  /\ last.op = "get_current_tenant" /\ last.thread /= MainThread
  /\ last.value = Tenant(2)
  /\ written[last.thread] = Tenant(2)
  /\ get_current_user(last.thread) = None
  /\ get_current_user(MainThread) = User(Profile(Tenant(1)))
  /\ written[MainThread] = Tenant(1)

\* C13: after process_request has handled an authenticated user whose
\* get_profile() returned a profile, the request was not refused and the
\* current tenant is that profile's tenant, None when the profile has none.
C13_ProfileTenant ==
  (AuthenticatedRequest(MainThread)
     /\ get_current_user(MainThread).get_profile \in Profiles) =>
     /\ ~last.raised
     /\ unit_of_work[MainThread] = "running"
     /\ get_current_tenant(MainThread) = get_current_user(MainThread).get_profile.tenant
     /\ last.tenant = get_current_user(MainThread).get_profile.tenant

\* the request of a user whose profile has no tenant was handled: no tenant is current
C13_Witness ==
  /\ AuthenticatedRequest(MainThread)
  /\ get_current_user(MainThread) = User(Profile(None))
  /\ get_current_tenant(MainThread) = None
  /\ last.thread = MainThread /\ ~last.raised

\* the aliases in use, other than the base table, whose table resolves to a
\* tenant-scoped model
ScopedJoins(q) ==
  {k \in JoinedAliases(q) \ UnregisteredJoins(q) :
     get_model_by_db_table(q.alias_map[k].table_name).TenantModel}

\* the fragments and parameters of an ExtraWhere node are, one for one, the
\* predicates alias."tenant column" = %s bound to the tenant's id, one for each
\* of the aliases
OnePerAlias(node, q, aliases, tenant) ==
  /\ DOMAIN node.params = DOMAIN node.sqls
  /\ \A k \in aliases : Cardinality({i \in DOMAIN node.sqls : node.sqls[i].alias = k}) = 1
  /\ \A i \in DOMAIN node.sqls :
        /\ node.sqls[i].alias \in aliases
        /\ node.sqls[i].column =
             get_model_by_db_table(q.alias_map[node.sqls[i].alias].table_name).tenant_id
        /\ node.sqls[i].bound
        /\ node.params[i] = tenant.id

\* C14: with a current tenant T, a join rewrite that returns changes nothing
\* of the queryset but its raw predicates; it appends one node holding one
\* predicate alias.tenantColumn = T, T's id bound as its parameter, for each
\* alias that is in use, is not the base table and resolves to a tenant-scoped
\* model, and no other predicate; when there is no such alias it leaves the
\* queryset as it was.
C14_ExactAliases ==
  (qs /= None /\ Truthy(get_current_tenant(MainThread))
     /\ add_tenant_filters_with_joins(MainThread, qs) /= ValueError) =>
     /\ add_tenant_filters_with_joins(MainThread, qs) =
          [qs EXCEPT !.extra = add_tenant_filters_with_joins(MainThread, qs).extra]
     /\ ScopedJoins(qs) = {} => add_tenant_filters_with_joins(MainThread, qs) = qs
     /\ ScopedJoins(qs) /= {} =>
          /\ Len(add_tenant_filters_with_joins(MainThread, qs).extra) = Len(qs.extra) + 1
          /\ SubSeq(add_tenant_filters_with_joins(MainThread, qs).extra, 1, Len(qs.extra))
               = qs.extra
          /\ OnePerAlias(add_tenant_filters_with_joins(MainThread, qs).extra[Len(qs.extra) + 1],
                         qs, ScopedJoins(qs), get_current_tenant(MainThread))

\* the rewrite was called under tenant 1 on purchases joined to their stores (in
\* use, not tenant-scoped) and to their products (in use, tenant-scoped): the
\* one node it appended holds the predicate of the product alias only
C14_Witness ==
  /\ qs /= None /\ qs.model = Purchase /\ apps = Models
  /\ last.op = "add_tenant_filters_with_joins" /\ ~last.raised /\ last.tenant = Tenant(1)
  /\ JoinedAliases(qs) = {"stores_store", "stores_product"}
  /\ Len(qs.extra) = 1
  /\ Len(qs.extra[1].sqls) = 1
  /\ qs.extra[1].sqls[1].alias = "stores_product"
  /\ qs.extra[1].params = << 1 >>

\* C15 (as claimed): on every queryset, registry and current tenant, the join
\* rewrite of django_multitenant and the one of stores.middleware raise on the
\* same inputs and, when they return, leave the same tenant predicates (alias,
\* column, tenant value) on the query.
C15_CopiesEquivalent ==
  qs /= None =>
     /\ (add_tenant_filters_with_joins(MainThread, qs) = ValueError)
          <=> (stores_add_tenant_filters_with_joins(MainThread, qs) = ValueError)
     /\ add_tenant_filters_with_joins(MainThread, qs) /= ValueError =>
          ExtraPredicates(add_tenant_filters_with_joins(MainThread, qs))
            = ExtraPredicates(stores_add_tenant_filters_with_joins(MainThread, qs))
====
